---- MODULE Spec2Model ----
(***************************************************************************)
(* Model of core/iwasm/common/wasm_memory.c: the process-wide allocation   *)
(* context (memory_mode, pool_allocator, the callback set, the recorded    *)
(* pool size) and the public operations that initialise it, route          *)
(* requests through it, tear it down and inspect it.                       *)
(*                                                                         *)
(* The backends (pool engine, caller-supplied callbacks, platform          *)
(* allocator) are external: every call the core makes to one of them is    *)
(* logged in `calls`, and the value it returns is chosen                   *)
(* nondeterministically.  `last` describes the most recent public call,    *)
(* `pre_mode` is the mode that call found and `kept` tells whether it left *)
(* the allocation context exactly as it found it.                          *)
(***************************************************************************)
EXTENDS Integers, Sequences, FiniteSets

\* ---------------------------------------------------------------- bounds
MaxHeaps == 1       \* pool handles the engine can create in one run
MaxFunc  == 2       \* distinct allocate/release function references
MaxReallocFunc == 1 \* distinct reallocate function references
MaxPtr   == 1       \* distinct non-NULL pointers
MaxSize  == 1       \* largest request size
MaxBytes == 1       \* largest pool region size

\* ------------------------------------------------------------- constants
MEMORY_MODE_UNKNOWN          == 0
MEMORY_MODE_POOL             == 1
MEMORY_MODE_ALLOCATOR        == 2
MEMORY_MODE_SYSTEM_ALLOCATOR == 3

\* mem_alloc_type_t tags; Alloc_Other stands for any unrecognised tag
Alloc_With_Pool             == 0
Alloc_With_Allocator        == 1
Alloc_With_System_Allocator == 2
Alloc_Other                 == 3

NULL == 0
\* 0xFFFFFFFF: the 32-bit pattern of UINT32_MAX, read in two's complement
UINT32_MAX == -1

Modes      == {MEMORY_MODE_UNKNOWN, MEMORY_MODE_POOL, MEMORY_MODE_ALLOCATOR,
               MEMORY_MODE_SYSTEM_ALLOCATOR}
AllocTypes == {Alloc_With_Pool, Alloc_With_Allocator,
               Alloc_With_System_Allocator, Alloc_Other}
Handles    == 1..MaxHeaps
Funcs      == 1..MaxFunc
FuncOrNull == {NULL} \cup Funcs
ReallocFuncOrNull == {NULL} \cup (1..MaxReallocFunc)
Ptrs       == 1..MaxPtr
PtrOrNull  == {NULL} \cup Ptrs
UserData   == {NULL, 1}
Sizes      == 0..MaxSize
PoolBytes  == 1..MaxBytes
LeakCounts == {0, 1}
Returned   == {NULL, 1}  \* what a backend returns: no pointer, or one

VARIABLES
    memory_mode, pool_allocator, allocator_user_data,
    malloc_func, realloc_func, free_func, global_pool_size,
    gc_verify_build,
    live_heaps, dead_heaps,
    calls, last, pre_mode, kept, exited,
    hist_pool_bytes, hist_pool_handle, hist_custom, leaked, stale_use,
    threads

ctx_vars   == <<memory_mode, pool_allocator, allocator_user_data,
                malloc_func, realloc_func, free_func, global_pool_size>>
build_vars == <<gc_verify_build>>
heap_vars  == <<live_heaps, dead_heaps>>
\* History: the size and the handle of the most recent successful pool
\* initialisation, the callbacks of the most recent successful custom
\* initialisation, and the handles of pools that no Destroy() had torn down
\* when a later initialisation succeeded
hist_vars  == <<hist_pool_bytes, hist_pool_handle, hist_custom, leaked>>
vars       == <<ctx_vars, build_vars, heap_vars, calls, last, pre_mode, kept,
                exited, hist_vars, stale_use, threads>>

\* The allocation context as one value
Ctx == [mode      |-> memory_mode,
        pool      |-> pool_allocator,
        user_data |-> allocator_user_data,
        malloc_fn |-> malloc_func,
        realloc_fn|-> realloc_func,
        free_fn   |-> free_func,
        pool_size |-> global_pool_size]

\* ------------------------------------------------------ backend call log
Call(backend, op, handle, ud, fn, ptr, size, ret) ==
    [backend |-> backend, op |-> op, handle |-> handle, ud |-> ud,
     fn |-> fn, ptr |-> ptr, size |-> size, ret |-> ret]

\* `last.args`: the tag, the size, the pointer (or region) and the allocate
\* and release references a call was made with.  The reallocate reference
\* and the user data of an initialisation show in the context once committed.
NoArgs == [type |-> 0, size |-> 0, ptr |-> NULL, mf |-> NULL, ff |-> NULL]

\* A MemAllocOption: pool.heap_buf / pool.heap_size, or allocator.*
NoOption == [heap_buf |-> NULL, heap_size |-> 0, user_data |-> NULL,
             malloc_func |-> NULL, realloc_func |-> NULL, free_func |-> NULL]

Op(name, args, ret, ok) == [op |-> name, args |-> args, ret |-> ret, ok |-> ok]

Result(cs, ret) == [calls |-> cs, ret |-> ret]

\* pool engine
mem_allocator_create(mem, bytes, h) ==
    Call("pool", "create", NULL, NULL, NULL, mem, bytes, h)
mem_allocator_destroy(h, leak) ==
    Call("pool", "destroy", h, NULL, NULL, NULL, 0, leak)
mem_allocator_malloc(h, size, r) ==
    Call("pool", "malloc", h, NULL, NULL, NULL, size, r)
mem_allocator_realloc(h, ptr, size, r) ==
    Call("pool", "realloc", h, NULL, NULL, ptr, size, r)
mem_allocator_free(h, ptr) ==
    Call("pool", "free", h, NULL, NULL, ptr, 0, NULL)
mem_allocator_get_alloc_info(h, r) ==
    Call("pool", "info", h, NULL, NULL, NULL, 0, r)

\* platform allocator
os_malloc(size, r)       == Call("system", "malloc", NULL, NULL, NULL, NULL, size, r)
os_realloc(ptr, size, r) == Call("system", "realloc", NULL, NULL, NULL, ptr, size, r)
os_free(ptr)             == Call("system", "free", NULL, NULL, NULL, ptr, 0, NULL)

\* caller-supplied callbacks, as built with WASM_MEM_ALLOC_WITH_USER_DATA != 0.
\* The build without user data passes no such argument: it behaves as this
\* one does for a caller whose user data is always NULL.
PassedUserData == allocator_user_data
call_malloc_func(size, r) ==
    Call("custom", "malloc", NULL, PassedUserData, malloc_func, NULL, size, r)
call_realloc_func(ptr, size, r) ==
    Call("custom", "realloc", NULL, PassedUserData, realloc_func, ptr, size, r)
call_free_func(ptr) ==
    Call("custom", "free", NULL, PassedUserData, free_func, ptr, 0, NULL)

\* The callback set of an initialisation
Callbacks(ud, mf, rf, ff) ==
    [user_data |-> ud, malloc_fn |-> mf, realloc_fn |-> rf, free_fn |-> ff]
NoCallbacks == Callbacks(NULL, NULL, NULL, NULL)

\* The pool engine is handed a handle it does not hold as a live heap
StaleUse(cs) ==
    \E i \in 1..Len(cs) :
        /\ cs[i].backend = "pool"
        /\ cs[i].op # "create"
        /\ cs[i].handle \notin live_heaps

\* Two host threads, for the runs in which calls are not made one at a time:
\* a lifecycle thread (lpc, with the locals _allocator and bytes of
\* wasm_memory_init_with_pool) and a request thread (rpc, with the request it
\* is serving).  overlapped: some call began while another was under way.
\* stale_kinds: how the request thread came to hand the engine a handle it
\* does not hold.
NoThreads ==
    [lpc |-> "idle", _allocator |-> NULL, bytes |-> 0,
     rpc |-> "idle", request |-> "none",
     overlapped |-> FALSE, stale_kinds |-> {}]

\* ------------------------------------------------------------------ Init
Init ==
    /\ memory_mode = MEMORY_MODE_UNKNOWN
    /\ pool_allocator = NULL
    /\ allocator_user_data = NULL
    /\ malloc_func = NULL
    /\ realloc_func = NULL
    /\ free_func = NULL
    /\ global_pool_size = 0
    /\ gc_verify_build \in BOOLEAN
    /\ live_heaps = {}
    /\ dead_heaps = {}
    /\ calls = <<>>
    /\ last = Op("none", NoArgs, 0, FALSE)
    /\ pre_mode = MEMORY_MODE_UNKNOWN
    /\ kept = TRUE
    /\ exited = FALSE
    /\ hist_pool_bytes = 0
    /\ hist_pool_handle = NULL
    /\ hist_custom = NoCallbacks
    /\ leaked = {}
    /\ stale_use = FALSE
    /\ threads = NoThreads

\* Bookkeeping common to every public call; it comes after the call's own
\* assignments, whose outcome `kept` compares with the context before them
Record(name, args, ret, ok, cs) ==
    /\ ~exited
    /\ last' = Op(name, args, ret, ok)
    /\ calls' = cs
    /\ pre_mode' = memory_mode
    /\ kept' = (ctx_vars' = ctx_vars)
    /\ stale_use' = StaleUse(calls')
    /\ UNCHANGED <<build_vars, threads>>

SetCtx(c) ==
    /\ memory_mode' = c.mode
    /\ pool_allocator' = c.pool
    /\ allocator_user_data' = c.user_data
    /\ malloc_func' = c.malloc_fn
    /\ realloc_func' = c.realloc_fn
    /\ free_func' = c.free_fn
    /\ global_pool_size' = c.pool_size

\* ------------------------------------------------------ Mode Initializer
\* Variant: the mode is switched before the engine's result is tested
wasm_memory_init_with_pool_EarlyMode(mem, bytes, _allocator) ==
    IF _allocator # NULL
    THEN [ctx |-> [Ctx EXCEPT !.mode = MEMORY_MODE_POOL,
                              !.pool = _allocator,
                              !.pool_size = bytes],
          ret |-> TRUE]
    ELSE [ctx |-> [Ctx EXCEPT !.mode = MEMORY_MODE_POOL], ret |-> FALSE]

\* _allocator is what mem_allocator_create(mem, bytes) returned
wasm_memory_init_with_pool(mem, bytes, _allocator) ==
    IF _allocator # NULL
    THEN [ctx |-> [Ctx EXCEPT !.mode = MEMORY_MODE_POOL,
                              !.pool = _allocator,
                              !.pool_size = bytes],
          ret |-> TRUE]
    ELSE [ctx |-> Ctx, ret |-> FALSE]

\* Variant: an absent reallocate function leaves the stored one in place
wasm_memory_init_with_allocator_KeepRealloc(_user_data, _malloc_func, _realloc_func, _free_func) ==
    IF _malloc_func # NULL /\ _free_func # NULL /\ _malloc_func # _free_func
    THEN [ctx |-> [Ctx EXCEPT !.mode = MEMORY_MODE_ALLOCATOR,
                              !.user_data = _user_data,
                              !.malloc_fn = _malloc_func,
                              !.realloc_fn = IF _realloc_func # NULL
                                             THEN _realloc_func
                                             ELSE realloc_func,
                              !.free_fn = _free_func],
          ret |-> TRUE]
    ELSE [ctx |-> Ctx, ret |-> FALSE]

\* Variant: allocate and release are not compared with each other
wasm_memory_init_with_allocator_NoAliasCheck(_user_data, _malloc_func, _realloc_func, _free_func) ==
    IF _malloc_func # NULL /\ _free_func # NULL
    THEN [ctx |-> [Ctx EXCEPT !.mode = MEMORY_MODE_ALLOCATOR,
                              !.user_data = _user_data,
                              !.malloc_fn = _malloc_func,
                              !.realloc_fn = _realloc_func,
                              !.free_fn = _free_func],
          ret |-> TRUE]
    ELSE [ctx |-> Ctx, ret |-> FALSE]

wasm_memory_init_with_allocator(_user_data, _malloc_func, _realloc_func, _free_func) ==
    IF _malloc_func # NULL /\ _free_func # NULL /\ _malloc_func # _free_func
    THEN [ctx |-> [Ctx EXCEPT !.mode = MEMORY_MODE_ALLOCATOR,
                              !.user_data = _user_data,
                              !.malloc_fn = _malloc_func,
                              !.realloc_fn = _realloc_func,
                              !.free_fn = _free_func],
          ret |-> TRUE]
    ELSE [ctx |-> Ctx, ret |-> FALSE]

\* The handle a successful mem_allocator_create would return next
FreshHandles ==
    LET n == Cardinality(live_heaps \cup dead_heaps)
    IN  IF n < MaxHeaps THEN {n + 1} ELSE {}

\* Configurations a caller can pass for each tag
PoolOptions ==
    {[NoOption EXCEPT !.heap_buf = m, !.heap_size = b] :
         m \in Ptrs, b \in PoolBytes}
AllocatorOptions ==
    {[NoOption EXCEPT !.user_data = u, !.malloc_func = m, !.realloc_func = r,
                      !.free_func = f] :
         u \in UserData, m \in FuncOrNull, r \in ReallocFuncOrNull,
         f \in FuncOrNull}
AllocOptions(type) ==
    IF type = Alloc_With_Pool THEN PoolOptions
    ELSE IF type = Alloc_With_Allocator THEN AllocatorOptions
    ELSE {NoOption}

wasm_runtime_memory_init_result(mem_alloc_type, alloc_option, created) ==
    IF mem_alloc_type = Alloc_With_Pool
    THEN wasm_memory_init_with_pool(alloc_option.heap_buf,
                                    alloc_option.heap_size, created)
    ELSE IF mem_alloc_type = Alloc_With_Allocator
    THEN wasm_memory_init_with_allocator(alloc_option.user_data,
                                         alloc_option.malloc_func,
                                         alloc_option.realloc_func,
                                         alloc_option.free_func)
    ELSE IF mem_alloc_type = Alloc_With_System_Allocator
    THEN [ctx |-> [Ctx EXCEPT !.mode = MEMORY_MODE_SYSTEM_ALLOCATOR],
          ret |-> TRUE]
    ELSE [ctx |-> Ctx, ret |-> FALSE]

\* created is what mem_allocator_create returns when the tag is the pool's
wasm_runtime_memory_init(mem_alloc_type, alloc_option, created) ==
    \E r \in {wasm_runtime_memory_init_result(mem_alloc_type, alloc_option,
                                              created)} :
        /\ SetCtx(r.ctx)
        /\ live_heaps' = IF mem_alloc_type = Alloc_With_Pool /\ created # NULL
                         THEN live_heaps \cup {created}
                         ELSE live_heaps
        /\ hist_pool_bytes' = IF mem_alloc_type = Alloc_With_Pool /\ r.ret
                              THEN alloc_option.heap_size
                              ELSE hist_pool_bytes
        /\ hist_pool_handle' = IF mem_alloc_type = Alloc_With_Pool /\ r.ret
                               THEN created
                               ELSE hist_pool_handle
        /\ hist_custom' = IF mem_alloc_type = Alloc_With_Allocator /\ r.ret
                          THEN Callbacks(alloc_option.user_data,
                                         alloc_option.malloc_func,
                                         alloc_option.realloc_func,
                                         alloc_option.free_func)
                          ELSE hist_custom
        /\ leaked' = IF r.ret /\ hist_pool_handle \in live_heaps
                     THEN leaked \cup {hist_pool_handle}
                     ELSE leaked
        /\ UNCHANGED <<dead_heaps, exited>>
        /\ Record("init",
                  [type |-> mem_alloc_type,
                   size |-> alloc_option.heap_size,
                   ptr  |-> alloc_option.heap_buf,
                   mf   |-> alloc_option.malloc_func,
                   ff   |-> alloc_option.free_func],
                  0, r.ret,
                  IF mem_alloc_type = Alloc_With_Pool
                  THEN <<mem_allocator_create(alloc_option.heap_buf,
                                              alloc_option.heap_size,
                                              created)>>
                  ELSE <<>>)

Initialize ==
    \E type \in AllocTypes :
      \E opt \in AllocOptions(type) :
        \E created \in (IF type = Alloc_With_Pool
                        THEN {NULL} \cup FreshHandles ELSE {NULL}) :
          wasm_runtime_memory_init(type, opt, created)

\* ----------------------------------------------------- Lifecycle Manager
\* Variant: a leak ends the process whether or not the build verifies leaks
wasm_runtime_memory_destroy_AlwaysVerify(leak) ==
    /\ IF memory_mode = MEMORY_MODE_POOL
       THEN /\ live_heaps' = live_heaps \ {pool_allocator}
            /\ dead_heaps' = dead_heaps \cup {pool_allocator}
       ELSE UNCHANGED heap_vars
    /\ IF memory_mode = MEMORY_MODE_POOL /\ leak # 0
       THEN /\ exited' = TRUE
            /\ UNCHANGED memory_mode
       ELSE /\ memory_mode' = MEMORY_MODE_UNKNOWN
            /\ UNCHANGED exited
    /\ UNCHANGED <<pool_allocator, allocator_user_data, malloc_func,
                   realloc_func, free_func, global_pool_size,
                   hist_vars>>
    /\ Record("destroy", NoArgs, 0, TRUE,
              IF memory_mode = MEMORY_MODE_POOL
              THEN <<mem_allocator_destroy(pool_allocator, leak)>>
              ELSE <<>>)

\* Variant: the mode is left as it was
wasm_runtime_memory_destroy_NoReset(leak) ==
    /\ IF memory_mode = MEMORY_MODE_POOL
       THEN /\ live_heaps' = live_heaps \ {pool_allocator}
            /\ dead_heaps' = dead_heaps \cup {pool_allocator}
       ELSE UNCHANGED heap_vars
    /\ IF memory_mode = MEMORY_MODE_POOL /\ gc_verify_build /\ leak # 0
       THEN exited' = TRUE
       ELSE UNCHANGED exited
    /\ UNCHANGED <<ctx_vars, hist_vars>>
    /\ Record("destroy", NoArgs, 0, TRUE,
              IF memory_mode = MEMORY_MODE_POOL
              THEN <<mem_allocator_destroy(pool_allocator, leak)>>
              ELSE <<>>)

\* Variant: the stored handle, not the mode, decides whether a pool is torn down
wasm_runtime_memory_destroy_HandleTest(leak) ==
    /\ IF pool_allocator # NULL
       THEN /\ live_heaps' = live_heaps \ {pool_allocator}
            /\ dead_heaps' = dead_heaps \cup {pool_allocator}
       ELSE UNCHANGED heap_vars
    /\ IF pool_allocator # NULL /\ gc_verify_build /\ leak # 0
       THEN /\ exited' = TRUE
            /\ UNCHANGED memory_mode
       ELSE /\ memory_mode' = MEMORY_MODE_UNKNOWN
            /\ UNCHANGED exited
    /\ UNCHANGED <<pool_allocator, allocator_user_data, malloc_func,
                   realloc_func, free_func, global_pool_size,
                   hist_vars>>
    /\ Record("destroy", NoArgs, 0, TRUE,
              IF pool_allocator # NULL
              THEN <<mem_allocator_destroy(pool_allocator, leak)>>
              ELSE <<>>)

\* Variant: the mode is reset only after a pool was torn down
wasm_runtime_memory_destroy_PoolOnlyReset(leak) ==
    /\ IF memory_mode = MEMORY_MODE_POOL
       THEN /\ live_heaps' = live_heaps \ {pool_allocator}
            /\ dead_heaps' = dead_heaps \cup {pool_allocator}
       ELSE UNCHANGED heap_vars
    /\ IF memory_mode = MEMORY_MODE_POOL /\ gc_verify_build /\ leak # 0
       THEN /\ exited' = TRUE
            /\ UNCHANGED memory_mode
       ELSE /\ memory_mode' = IF memory_mode = MEMORY_MODE_POOL
                              THEN MEMORY_MODE_UNKNOWN
                              ELSE memory_mode
            /\ UNCHANGED exited
    /\ UNCHANGED <<pool_allocator, allocator_user_data, malloc_func,
                   realloc_func, free_func, global_pool_size,
                   hist_vars>>
    /\ Record("destroy", NoArgs, 0, TRUE,
              IF memory_mode = MEMORY_MODE_POOL
              THEN <<mem_allocator_destroy(pool_allocator, leak)>>
              ELSE <<>>)

wasm_runtime_memory_destroy(leak) ==
    /\ IF memory_mode = MEMORY_MODE_POOL
       THEN /\ live_heaps' = live_heaps \ {pool_allocator}
            /\ dead_heaps' = dead_heaps \cup {pool_allocator}
       ELSE UNCHANGED heap_vars
    /\ IF memory_mode = MEMORY_MODE_POOL /\ gc_verify_build /\ leak # 0
       THEN \* exit(-1): the process ends with the mode still set
            /\ exited' = TRUE
            /\ UNCHANGED memory_mode
       ELSE /\ memory_mode' = MEMORY_MODE_UNKNOWN
            /\ UNCHANGED exited
    /\ UNCHANGED <<pool_allocator, allocator_user_data, malloc_func,
                   realloc_func, free_func, global_pool_size,
                   hist_vars>>
    /\ Record("destroy", NoArgs, 0, TRUE,
              IF memory_mode = MEMORY_MODE_POOL
              THEN <<mem_allocator_destroy(pool_allocator, leak)>>
              ELSE <<>>)

Destroy == \E leak \in LeakCounts : wasm_runtime_memory_destroy(leak)

\* --------------------------------------------------------- Introspection
\* Variant: the recorded size is returned whatever the mode
wasm_runtime_memory_pool_size_result_NoModeTest == global_pool_size

wasm_runtime_memory_pool_size_result ==
    IF memory_mode = MEMORY_MODE_POOL THEN global_pool_size ELSE UINT32_MAX

wasm_runtime_memory_pool_size ==
    /\ UNCHANGED <<ctx_vars, heap_vars, exited, hist_vars>>
    /\ Record("pool_size", NoArgs, wasm_runtime_memory_pool_size_result,
              TRUE, <<>>)

\* Variant: the stored handle, not the mode, decides whether the engine is asked
wasm_runtime_get_mem_alloc_info_result_HandleTest(r) ==
    IF pool_allocator # NULL
    THEN Result(<<mem_allocator_get_alloc_info(pool_allocator, r)>>, r)
    ELSE Result(<<>>, 0)

\* r is what the engine's statistics query returns (1 = filled in)
wasm_runtime_get_mem_alloc_info_result(r) ==
    IF memory_mode = MEMORY_MODE_POOL
    THEN Result(<<mem_allocator_get_alloc_info(pool_allocator, r)>>, r)
    ELSE Result(<<>>, 0)

wasm_runtime_get_mem_alloc_info(r) ==
    \E res \in {wasm_runtime_get_mem_alloc_info_result(r)} :
        /\ UNCHANGED <<ctx_vars, heap_vars, exited, hist_vars>>
        /\ Record("info", NoArgs, 0, res.ret = 1, res.calls)

AllocationStats == \E r \in {0, 1} : wasm_runtime_get_mem_alloc_info(r)

\* ----------------------------------------------------- Allocation Router
\* Variant: an uninitialised context falls through to the platform allocator
wasm_runtime_malloc_internal_NoUnknownTest(size, r) ==
    IF memory_mode = MEMORY_MODE_POOL
    THEN Result(<<mem_allocator_malloc(pool_allocator, size, r)>>, r)
    ELSE IF memory_mode = MEMORY_MODE_ALLOCATOR
    THEN Result(<<call_malloc_func(size, r)>>, r)
    ELSE Result(<<os_malloc(size, r)>>, r)

\* Variant: an exhausted pool falls back to the platform allocator
wasm_runtime_malloc_internal_Fallback(size, r) ==
    IF memory_mode = MEMORY_MODE_UNKNOWN
    THEN Result(<<>>, NULL)
    ELSE IF memory_mode = MEMORY_MODE_POOL
    THEN IF r = NULL
         THEN Result(<<mem_allocator_malloc(pool_allocator, size, r),
                       os_malloc(size, r)>>, r)
         ELSE Result(<<mem_allocator_malloc(pool_allocator, size, r)>>, r)
    ELSE IF memory_mode = MEMORY_MODE_ALLOCATOR
    THEN Result(<<call_malloc_func(size, r)>>, r)
    ELSE Result(<<os_malloc(size, r)>>, r)

\* r is the value the selected backend returns
wasm_runtime_malloc_internal(size, r) ==
    IF memory_mode = MEMORY_MODE_UNKNOWN
    THEN Result(<<>>, NULL)
    ELSE IF memory_mode = MEMORY_MODE_POOL
    THEN Result(<<mem_allocator_malloc(pool_allocator, size, r)>>, r)
    ELSE IF memory_mode = MEMORY_MODE_ALLOCATOR
    THEN Result(<<call_malloc_func(size, r)>>, r)
    ELSE Result(<<os_malloc(size, r)>>, r)

\* Variant: a missing reallocate callback is emulated by allocate + release
wasm_runtime_realloc_internal_Emulated(ptr, size, r) ==
    IF memory_mode = MEMORY_MODE_UNKNOWN
    THEN Result(<<>>, NULL)
    ELSE IF memory_mode = MEMORY_MODE_POOL
    THEN Result(<<mem_allocator_realloc(pool_allocator, ptr, size, r)>>, r)
    ELSE IF memory_mode = MEMORY_MODE_ALLOCATOR
    THEN IF realloc_func # NULL
         THEN Result(<<call_realloc_func(ptr, size, r)>>, r)
         ELSE Result(<<call_malloc_func(size, r), call_free_func(ptr)>>, r)
    ELSE Result(<<os_realloc(ptr, size, r)>>, r)

wasm_runtime_realloc_internal(ptr, size, r) ==
    IF memory_mode = MEMORY_MODE_UNKNOWN
    THEN Result(<<>>, NULL)
    ELSE IF memory_mode = MEMORY_MODE_POOL
    THEN Result(<<mem_allocator_realloc(pool_allocator, ptr, size, r)>>, r)
    ELSE IF memory_mode = MEMORY_MODE_ALLOCATOR
    THEN IF realloc_func # NULL
         THEN Result(<<call_realloc_func(ptr, size, r)>>, r)
         ELSE Result(<<>>, NULL)
    ELSE Result(<<os_realloc(ptr, size, r)>>, r)

\* Variant: the pointer is not tested before it is routed
wasm_runtime_free_internal_NoNullTest(ptr) ==
    IF memory_mode = MEMORY_MODE_UNKNOWN
    THEN Result(<<>>, NULL)
    ELSE IF memory_mode = MEMORY_MODE_POOL
    THEN Result(<<mem_allocator_free(pool_allocator, ptr)>>, NULL)
    ELSE IF memory_mode = MEMORY_MODE_ALLOCATOR
    THEN Result(<<call_free_func(ptr)>>, NULL)
    ELSE Result(<<os_free(ptr)>>, NULL)

wasm_runtime_free_internal(ptr) ==
    IF ptr = NULL
    THEN Result(<<>>, NULL)
    ELSE IF memory_mode = MEMORY_MODE_UNKNOWN
    THEN Result(<<>>, NULL)
    ELSE IF memory_mode = MEMORY_MODE_POOL
    THEN Result(<<mem_allocator_free(pool_allocator, ptr)>>, NULL)
    ELSE IF memory_mode = MEMORY_MODE_ALLOCATOR
    THEN Result(<<call_free_func(ptr)>>, NULL)
    ELSE Result(<<os_free(ptr)>>, NULL)

\* Variant: the size is handed on as it came
wasm_runtime_malloc_size_Unpromoted(size) == size

\* The size wasm_runtime_malloc hands on: a zero size becomes 1
wasm_runtime_malloc_size(size) == IF size = 0 THEN 1 ELSE size

\* Variant: an absent result from the pool switches to the platform allocator
wasm_runtime_malloc_SwitchOnFailure(size, r) ==
    \E res \in {wasm_runtime_malloc_internal(wasm_runtime_malloc_size(size),
                                             r)} :
        /\ memory_mode' = IF memory_mode = MEMORY_MODE_POOL /\ res.ret = NULL
                          THEN MEMORY_MODE_SYSTEM_ALLOCATOR
                          ELSE memory_mode
        /\ UNCHANGED <<pool_allocator, allocator_user_data, malloc_func,
                       realloc_func, free_func, global_pool_size, heap_vars,
                       exited, hist_vars>>
        /\ Record("malloc", [NoArgs EXCEPT !.size = size], res.ret, TRUE,
                  res.calls)

wasm_runtime_malloc(size, r) ==
    \E res \in {wasm_runtime_malloc_internal(wasm_runtime_malloc_size(size),
                                             r)} :
        /\ UNCHANGED <<ctx_vars, heap_vars, exited, hist_vars>>
        /\ Record("malloc", [NoArgs EXCEPT !.size = size], res.ret, TRUE,
                  res.calls)

wasm_runtime_realloc(ptr, size, r) ==
    \E res \in {wasm_runtime_realloc_internal(ptr, size, r)} :
        /\ UNCHANGED <<ctx_vars, heap_vars, exited, hist_vars>>
        /\ Record("realloc", [NoArgs EXCEPT !.ptr = ptr, !.size = size],
                  res.ret, TRUE, res.calls)

wasm_runtime_free(ptr) ==
    \E res \in {wasm_runtime_free_internal(ptr)} :
        /\ UNCHANGED <<ctx_vars, heap_vars, exited, hist_vars>>
        /\ Record("free", [NoArgs EXCEPT !.ptr = ptr], NULL, TRUE, res.calls)

Allocate   == \E size \in Sizes, r \in Returned : wasm_runtime_malloc(size, r)
Reallocate == \E ptr \in PtrOrNull, size \in Sizes, r \in Returned :
                  wasm_runtime_realloc(ptr, size, r)
Release    == \E ptr \in PtrOrNull : wasm_runtime_free(ptr)
PoolCapacity == wasm_runtime_memory_pool_size

\* ------------------------------------------------- calls not serialised
\* The same functions, one shared-memory access per step, run by two
\* threads.  Calls the host makes one at a time begin only while the other
\* thread is idle.
LifecyclePCs == {"idle", "init_created", "init_mode", "init_handle",
                 "destroy_call", "destroy_reset"}
RequestPCs   == {"idle", "test_unknown", "test_pool", "call_pool",
                 "call_system"}
Requests     == {"malloc", "realloc", "free", "info"}

ConcUnchanged ==
    UNCHANGED <<allocator_user_data, malloc_func, realloc_func, free_func,
                build_vars, last, pre_mode, kept, hist_vars>>

\* line 38: _allocator = mem_allocator_create(mem, bytes), and the test of it
wasm_memory_init_with_pool_create(mem, bytes, created) ==
    /\ ~exited /\ threads.lpc = "idle"
    /\ live_heaps' = IF created # NULL THEN live_heaps \cup {created}
                     ELSE live_heaps
    /\ calls' = <<mem_allocator_create(mem, bytes, created)>>
    /\ stale_use' = FALSE
    /\ threads' = [threads EXCEPT
                     !.lpc = IF created # NULL THEN "init_created" ELSE "idle",
                     !._allocator = created,
                     !.bytes = bytes,
                     !.overlapped = @ \/ threads.rpc # "idle"]
    /\ UNCHANGED <<memory_mode, pool_allocator, global_pool_size, dead_heaps,
                   exited>>
    /\ ConcUnchanged

\* line 41: memory_mode = MEMORY_MODE_POOL
wasm_memory_init_with_pool_store_mode ==
    /\ ~exited /\ threads.lpc = "init_created"
    /\ memory_mode' = MEMORY_MODE_POOL
    /\ threads' = [threads EXCEPT !.lpc = "init_mode"]
    /\ UNCHANGED <<pool_allocator, global_pool_size, heap_vars, calls,
                   stale_use, exited>>
    /\ ConcUnchanged

\* line 42: pool_allocator = _allocator
wasm_memory_init_with_pool_store_handle ==
    /\ ~exited /\ threads.lpc = "init_mode"
    /\ pool_allocator' = threads._allocator
    /\ threads' = [threads EXCEPT !.lpc = "init_handle"]
    /\ UNCHANGED <<memory_mode, global_pool_size, heap_vars, calls,
                   stale_use, exited>>
    /\ ConcUnchanged

\* line 43: global_pool_size = bytes
wasm_memory_init_with_pool_store_size ==
    /\ ~exited /\ threads.lpc = "init_handle"
    /\ global_pool_size' = threads.bytes
    /\ threads' = [threads EXCEPT !.lpc = "idle"]
    /\ UNCHANGED <<memory_mode, pool_allocator, heap_vars, calls,
                   stale_use, exited>>
    /\ ConcUnchanged

\* line 119: if (memory_mode == MEMORY_MODE_POOL)
wasm_runtime_memory_destroy_test ==
    /\ ~exited /\ threads.lpc = "idle"
    /\ threads' = [threads EXCEPT
                     !.lpc = IF memory_mode = MEMORY_MODE_POOL
                             THEN "destroy_call" ELSE "destroy_reset",
                     !.overlapped = @ \/ threads.rpc # "idle"]
    /\ UNCHANGED <<memory_mode, pool_allocator, global_pool_size, heap_vars,
                   calls, stale_use, exited>>
    /\ ConcUnchanged

\* lines 121-127: mem_allocator_destroy(pool_allocator), and exit(-1) on a
\* leak when the build verifies leaks
wasm_runtime_memory_destroy_call(leak) ==
    /\ ~exited /\ threads.lpc = "destroy_call"
    /\ live_heaps' = live_heaps \ {pool_allocator}
    /\ dead_heaps' = dead_heaps \cup {pool_allocator}
    /\ calls' = <<mem_allocator_destroy(pool_allocator, leak)>>
    /\ stale_use' = StaleUse(calls')
    /\ exited' = (gc_verify_build /\ leak # 0)
    /\ threads' = [threads EXCEPT !.lpc = "destroy_reset"]
    /\ UNCHANGED <<memory_mode, pool_allocator, global_pool_size>>
    /\ ConcUnchanged

\* Variant: the mode is left as it was
wasm_runtime_memory_destroy_reset_Skipped ==
    /\ ~exited /\ threads.lpc = "destroy_reset"
    /\ threads' = [threads EXCEPT !.lpc = "idle"]
    /\ UNCHANGED <<memory_mode, pool_allocator, global_pool_size, heap_vars,
                   calls, stale_use, exited>>
    /\ ConcUnchanged

\* line 130: memory_mode = MEMORY_MODE_UNKNOWN
wasm_runtime_memory_destroy_reset ==
    /\ ~exited /\ threads.lpc = "destroy_reset"
    /\ memory_mode' = MEMORY_MODE_UNKNOWN
    /\ threads' = [threads EXCEPT !.lpc = "idle"]
    /\ UNCHANGED <<pool_allocator, global_pool_size, heap_vars, calls,
                   stale_use, exited>>
    /\ ConcUnchanged

\* A routed request (with a pointer that is not NULL) or a statistics query
\* is entered; the query has no test for the uninitialised mode
request_begin(request) ==
    /\ ~exited /\ threads.rpc = "idle"
    /\ threads' = [threads EXCEPT
                     !.rpc = IF request = "info" THEN "test_pool"
                             ELSE "test_unknown",
                     !.request = request,
                     !.overlapped = @ \/ threads.lpc # "idle"]
    /\ UNCHANGED <<memory_mode, pool_allocator, global_pool_size, heap_vars,
                   calls, stale_use, exited>>
    /\ ConcUnchanged

\* lines 145, 168, 198: if (memory_mode == MEMORY_MODE_UNKNOWN)
request_test_unknown ==
    /\ ~exited /\ threads.rpc = "test_unknown"
    /\ threads' = [threads EXCEPT
                     !.rpc = IF memory_mode = MEMORY_MODE_UNKNOWN
                             THEN "idle" ELSE "test_pool"]
    /\ UNCHANGED <<memory_mode, pool_allocator, global_pool_size, heap_vars,
                   calls, stale_use, exited>>
    /\ ConcUnchanged

\* lines 150, 173, 203, 245: if (memory_mode == MEMORY_MODE_POOL).  These
\* runs know the pool and the uninitialised mode only, so a routed request
\* that finds the pool gone after it passed the first test goes on to os_*
request_test_pool ==
    /\ ~exited /\ threads.rpc = "test_pool"
    /\ threads' = [threads EXCEPT
                     !.rpc = IF memory_mode = MEMORY_MODE_POOL
                             THEN "call_pool"
                             ELSE IF threads.request = "info"
                             THEN "idle"
                             ELSE "call_system"]
    /\ UNCHANGED <<memory_mode, pool_allocator, global_pool_size, heap_vars,
                   calls, stale_use, exited>>
    /\ ConcUnchanged

\* The engine call of the request, made with pool_allocator as it is now
request_engine_call(request, h, r) ==
    IF request = "malloc" THEN mem_allocator_malloc(h, 1, r)
    ELSE IF request = "realloc" THEN mem_allocator_realloc(h, 1, 1, r)
    ELSE IF request = "free" THEN mem_allocator_free(h, 1)
    ELSE mem_allocator_get_alloc_info(h, r)

\* lines 151, 174, 204, 246: mem_allocator_*(pool_allocator, ...)
request_call_pool(r) ==
    /\ ~exited /\ threads.rpc = "call_pool"
    /\ calls' = <<request_engine_call(threads.request, pool_allocator, r)>>
    /\ stale_use' = StaleUse(calls')
    /\ threads' = [threads EXCEPT
                     !.rpc = "idle",
                     !.stale_kinds =
                         IF pool_allocator \in live_heaps THEN @
                         ELSE IF pool_allocator \in dead_heaps
                         THEN @ \cup {"destroyed"}
                         ELSE @ \cup {"not stored"}]
    /\ UNCHANGED <<memory_mode, pool_allocator, global_pool_size, heap_vars,
                   exited>>
    /\ ConcUnchanged

\* lines 161, 187, 214: os_malloc / os_realloc / os_free
request_call_system(r) ==
    /\ ~exited /\ threads.rpc = "call_system"
    /\ calls' = <<IF threads.request = "malloc" THEN os_malloc(1, r)
                  ELSE IF threads.request = "realloc" THEN os_realloc(1, 1, r)
                  ELSE os_free(1)>>
    /\ stale_use' = FALSE
    /\ threads' = [threads EXCEPT !.rpc = "idle"]
    /\ UNCHANGED <<memory_mode, pool_allocator, global_pool_size, heap_vars,
                   exited>>
    /\ ConcUnchanged

InitPoolCreate ==
    \E opt \in PoolOptions, created \in {NULL} \cup FreshHandles :
        wasm_memory_init_with_pool_create(opt.heap_buf, opt.heap_size, created)
DestroyCall  == \E leak \in LeakCounts : wasm_runtime_memory_destroy_call(leak)
RequestBegin == \E request \in Requests : request_begin(request)
RequestCallPool   == \E r \in Returned : request_call_pool(r)
RequestCallSystem == \E r \in Returned : request_call_system(r)

NextConc ==
    \/ InitPoolCreate
    \/ wasm_memory_init_with_pool_store_mode
    \/ wasm_memory_init_with_pool_store_handle
    \/ wasm_memory_init_with_pool_store_size
    \/ wasm_runtime_memory_destroy_test
    \/ DestroyCall
    \/ wasm_runtime_memory_destroy_reset
    \/ RequestBegin
    \/ request_test_unknown
    \/ request_test_pool
    \/ RequestCallPool
    \/ RequestCallSystem

SpecConc == Init /\ [][NextConc]_vars

\* ------------------------------------------------------------------ Spec
Next ==
    \/ Initialize
    \/ Destroy
    \/ Allocate
    \/ Reallocate
    \/ Release
    \/ PoolCapacity
    \/ AllocationStats

Spec == Init /\ [][Next]_vars

TypeOK ==
    /\ memory_mode \in Modes
    /\ pool_allocator \in {NULL} \cup Handles
    /\ allocator_user_data \in UserData
    /\ malloc_func \in FuncOrNull
    /\ realloc_func \in ReallocFuncOrNull
    /\ free_func \in FuncOrNull
    /\ global_pool_size \in {0} \cup PoolBytes
    /\ live_heaps \subseteq Handles
    /\ dead_heaps \subseteq Handles
    /\ Len(calls) <= 1
    /\ pre_mode \in Modes
    /\ kept \in BOOLEAN
    /\ exited \in BOOLEAN
    /\ threads.lpc \in LifecyclePCs
    /\ threads.rpc \in RequestPCs

\* ---------------------------------------------------------------- claims
Routed == {"malloc", "realloc", "free"}

\* The backend a mode routes to
BackendOf(mode) ==
    IF mode = MEMORY_MODE_POOL THEN "pool"
    ELSE IF mode = MEMORY_MODE_ALLOCATOR THEN "custom"
    ELSE "system"

\* C1: a routed request made while the mode is Uninitialized calls no
\* backend; Allocate and Reallocate return NULL and Release changes nothing.
C1_UninitializedRoutesNowhere ==
    (last.op \in Routed /\ pre_mode = MEMORY_MODE_UNKNOWN)
        => /\ calls = <<>>
           /\ last.ret = NULL
           /\ kept

\* Reallocate of a non-NULL pointer after a pool was set up and destroyed
C1_Witness ==
    /\ last.op = "realloc"
    /\ last.args.ptr # NULL
    /\ pre_mode = MEMORY_MODE_UNKNOWN
    /\ pool_allocator \in dead_heaps

\* C2: an Initialize call that reports failure leaves the whole allocation
\* context (mode, handle, capacity, callbacks, user data) as it was.
C2_CommitOrReject ==
    (last.op = "init" /\ ~last.ok) => kept

\* Pool construction fails while a custom allocator is configured
C2_Witness ==
    /\ last.op = "init"
    /\ ~last.ok
    /\ last.args.type = Alloc_With_Pool
    /\ pre_mode = MEMORY_MODE_ALLOCATOR

\* C3: custom-allocator initialisation fails exactly when allocate is NULL,
\* release is NULL or both are the same reference; otherwise it commits
\* mode = CustomAllocator.  On failure the mode is the prior one.
C3_CustomValidation ==
    (last.op = "init" /\ last.args.type = Alloc_With_Allocator)
        => /\ ~last.ok <=> \/ last.args.mf = NULL
                           \/ last.args.ff = NULL
                           \/ last.args.mf = last.args.ff
           /\ last.ok => memory_mode = MEMORY_MODE_ALLOCATOR
           /\ ~last.ok => memory_mode = pre_mode

\* allocate = release = f is rejected over a running pool
C3_Witness ==
    /\ last.op = "init"
    /\ last.args.type = Alloc_With_Allocator
    /\ last.args.mf # NULL
    /\ last.args.mf = last.args.ff
    /\ ~last.ok
    /\ memory_mode = MEMORY_MODE_POOL

\* C4: in a configured mode Allocate(0) and Allocate(1) both make one call,
\* to the allocate operation of the mode's backend with size 1, and return
\* what that call returned.
C4_ZeroIsOne ==
    (last.op = "malloc" /\ last.args.size \in {0, 1}
                        /\ pre_mode # MEMORY_MODE_UNKNOWN)
        => /\ Len(calls) = 1
           /\ calls[1].backend = BackendOf(pre_mode)
           /\ calls[1].op = "malloc"
           /\ calls[1].size = 1
           /\ last.ret = calls[1].ret

\* Allocate(0) served by the custom allocate callback
C4_Witness ==
    /\ last.op = "malloc"
    /\ last.args.size = 0
    /\ pre_mode = MEMORY_MODE_ALLOCATOR
    /\ last.ret # NULL

\* C5: Release(NULL) calls no backend and leaves the context unchanged, in
\* every mode.
C5_ReleaseNullNoOp ==
    (last.op = "free" /\ last.args.ptr = NULL)
        => /\ calls = <<>>
           /\ kept

\* Release(NULL) with the platform allocator selected
C5_Witness ==
    /\ last.op = "free"
    /\ last.args.ptr = NULL
    /\ pre_mode = MEMORY_MODE_SYSTEM_ALLOCATOR

C7_DestroyResets ==
    /\ (last.op = "destroy" /\ ~exited) => memory_mode = MEMORY_MODE_UNKNOWN
    /\ (pre_mode = MEMORY_MODE_UNKNOWN /\ ~(last.op = "init" /\ last.ok))
           => memory_mode = MEMORY_MODE_UNKNOWN
    /\ pre_mode = MEMORY_MODE_UNKNOWN
           => /\ last.op = "pool_size" => last.ret = UINT32_MAX
              /\ last.op = "info" => (~last.ok /\ calls = <<>>)
              /\ last.op = "malloc" => last.ret = NULL

\* Initialize(Pool), Destroy, PoolCapacity
C7_Witness ==
    /\ last.op = "pool_size"
    /\ pre_mode = MEMORY_MODE_UNKNOWN
    /\ pool_allocator \in dead_heaps
    /\ last.ret = UINT32_MAX

\* C8: with a custom allocator that has no reallocate callback, Reallocate
\* returns NULL and calls nothing; with the pool or the platform allocator
\* it calls that backend's reallocate.
C8_ReallocNotEmulated ==
    last.op = "realloc"
        => /\ (pre_mode = MEMORY_MODE_ALLOCATOR /\ realloc_func = NULL)
                  => (last.ret = NULL /\ calls = <<>>)
           /\ pre_mode \in {MEMORY_MODE_POOL, MEMORY_MODE_SYSTEM_ALLOCATOR}
                  => /\ Len(calls) = 1
                     /\ calls[1].backend = BackendOf(pre_mode)
                     /\ calls[1].op = "realloc"

\* Reallocate(ptr, size > 0) with allocate + release only
C8_Witness ==
    /\ last.op = "realloc"
    /\ last.args.ptr # NULL
    /\ last.args.size > 0
    /\ pre_mode = MEMORY_MODE_ALLOCATOR
    /\ realloc_func = NULL
    /\ last.ret = NULL

\* C9: Allocate, Reallocate, Release, PoolCapacity and AllocationStats leave
\* the allocation context exactly as they found it.
C9_RoutingReadOnly ==
    last.op \in Routed \cup {"pool_size", "info"} => kept

\* The pool reports exhaustion to Allocate
C9_Witness ==
    /\ last.op = "malloc"
    /\ pre_mode = MEMORY_MODE_POOL
    /\ Len(calls) = 1
    /\ last.ret = NULL

\* The last call was a routed request with a backend operation to go to
Dispatchable ==
    /\ last.op \in Routed
    /\ pre_mode # MEMORY_MODE_UNKNOWN
    /\ last.op = "realloc" /\ pre_mode = MEMORY_MODE_ALLOCATOR
           => realloc_func # NULL
    /\ last.op = "free" => last.args.ptr # NULL

\* The stored callback that serves an operation
CallbackFor(op) ==
    IF op = "malloc" THEN malloc_func
    ELSE IF op = "realloc" THEN realloc_func
    ELSE free_func

\* C10: in a configured mode a routed request makes exactly one backend
\* call, the operation of the same name on the backend of the current mode
\* (the stored handle, the stored callback), and Allocate / Reallocate
\* return that call's result, absent included.
C10_ExactlyOneBackendCall ==
    Dispatchable
        => /\ Len(calls) = 1
           /\ calls[1].backend = BackendOf(pre_mode)
           /\ calls[1].op = last.op
           /\ pre_mode = MEMORY_MODE_POOL => calls[1].handle = pool_allocator
           /\ pre_mode = MEMORY_MODE_ALLOCATOR
                  => calls[1].fn = CallbackFor(last.op)
           /\ last.op \in {"malloc", "realloc"} => last.ret = calls[1].ret

\* The custom reallocate callback returns NULL and so does Reallocate
C10_Witness ==
    /\ last.op = "realloc"
    /\ pre_mode = MEMORY_MODE_ALLOCATOR
    /\ realloc_func # NULL
    /\ Len(calls) = 1
    /\ last.ret = NULL
\* C11: AllocationStats asks the pool engine, with the stored handle, and
\* returns its answer only when the mode is Pool; in every other mode it
\* returns absent without a call, whatever handle is still stored.
C11_StatsOnlyInPoolMode ==
    last.op = "info"
        => IF pre_mode = MEMORY_MODE_POOL
           THEN /\ Len(calls) = 1
                /\ calls[1].backend = "pool"
                /\ calls[1].op = "info"
                /\ calls[1].handle = pool_allocator
                /\ last.ok <=> (calls[1].ret = 1)
           ELSE /\ calls = <<>>
                /\ ~last.ok

\* AllocationStats under the platform allocator with an earlier pool's
\* handle still stored
C11_Witness ==
    /\ last.op = "info"
    /\ pre_mode = MEMORY_MODE_SYSTEM_ALLOCATOR
    /\ pool_allocator # NULL
    /\ ~last.ok
\* The context stores a callback set
CallbackSetStored ==
    \/ malloc_func # NULL
    \/ realloc_func # NULL
    \/ free_func # NULL
    \/ allocator_user_data # NULL

\* C12: the context is a consistent tagged union: the pool handle is set
\* exactly when the mode is Pool and the callback set is set exactly when
\* the mode is CustomAllocator.
C12_TaggedUnion ==
    /\ (pool_allocator # NULL) <=> (memory_mode = MEMORY_MODE_POOL)
    /\ CallbackSetStored <=> (memory_mode = MEMORY_MODE_ALLOCATOR)

\* C13: a completed Destroy leaves the mode Uninitialized and the stored
\* pool handle and callback set (allocate, reallocate, release, user data)
\* cleared.
C13_DestroyClears ==
    (last.op = "destroy" /\ ~exited)
        => /\ memory_mode = MEMORY_MODE_UNKNOWN
           /\ pool_allocator = NULL
           /\ ~CallbackSetStored
\* C14: Destroy in Pool mode calls the engine's destroy once, on the stored
\* handle.  In a build that verifies leaks a non-zero leak count ends the
\* process with the mode still Pool, and nothing runs afterwards; with a
\* zero count, or in a build that does not verify, Destroy completes with
\* the mode Uninitialized.  In the other modes Destroy calls nothing and
\* never ends the process.
C14_DestroyAndLeaks ==
    /\ last.op = "destroy"
           => IF pre_mode = MEMORY_MODE_POOL
              THEN /\ Len(calls) = 1
                   /\ calls[1].backend = "pool"
                   /\ calls[1].op = "destroy"
                   /\ calls[1].handle = pool_allocator
                   /\ IF gc_verify_build /\ calls[1].ret # 0
                      THEN exited /\ memory_mode = MEMORY_MODE_POOL
                      ELSE ~exited /\ memory_mode = MEMORY_MODE_UNKNOWN
              ELSE /\ calls = <<>>
                   /\ ~exited
                   /\ memory_mode = MEMORY_MODE_UNKNOWN
    /\ exited => last.op = "destroy"

\* A leak reported to a build that does not verify leaks: Destroy completes
C14_Witness ==
    /\ last.op = "destroy"
    /\ pre_mode = MEMORY_MODE_POOL
    /\ ~gc_verify_build
    /\ Len(calls) = 1
    /\ calls[1].ret # 0
    /\ memory_mode = MEMORY_MODE_UNKNOWN
\* C15: no routed request reaches a backend's allocate or reallocate
\* operation with size 0: a zero size is promoted to 1 first, in Allocate
\* and in Reallocate alike.
C15_NoZeroSizeDispatched ==
    last.op \in {"malloc", "realloc"}
        => \A i \in 1..Len(calls) : calls[i].size # 0
\* ---------------------------------------------------------------- C16
\* The mode an accepted initialisation with this tag selects
ModeOf(type) ==
    IF type = Alloc_With_Pool THEN MEMORY_MODE_POOL
    ELSE IF type = Alloc_With_Allocator THEN MEMORY_MODE_ALLOCATOR
    ELSE MEMORY_MODE_SYSTEM_ALLOCATOR

\* What decides whether an initialisation is accepted: its own arguments and
\* the engine's answer, never the mode it is called in
Acceptable ==
    \/ last.args.type = Alloc_With_Pool /\ calls[1].ret # NULL
    \/ /\ last.args.type = Alloc_With_Allocator
       /\ last.args.mf # NULL /\ last.args.ff # NULL
       /\ last.args.mf # last.args.ff
    \/ last.args.type = Alloc_With_System_Allocator

C19_CustomCallbacks ==
    /\ memory_mode = MEMORY_MODE_ALLOCATOR =>
           /\ malloc_func # NULL /\ free_func # NULL
           /\ malloc_func # free_func
           /\ Callbacks(allocator_user_data, malloc_func, realloc_func,
                        free_func) = hist_custom
    /\ \A i \in 1..Len(calls) :
           calls[i].backend = "custom" =>
               /\ last.op \in Routed
               /\ pre_mode = MEMORY_MODE_ALLOCATOR
               /\ calls[i].ud = hist_custom.user_data
               /\ calls[i].fn # NULL
               /\ calls[i].fn = (IF calls[i].op = "malloc"
                                 THEN hist_custom.malloc_fn
                                 ELSE IF calls[i].op = "realloc"
                                 THEN hist_custom.realloc_fn
                                 ELSE hist_custom.free_fn)
    /\ (/\ last.op = "realloc"
        /\ pre_mode = MEMORY_MODE_ALLOCATOR
        /\ hist_custom.realloc_fn = NULL) =>
           (calls = <<>> /\ last.ret = NULL)
    /\ (last.op = "init" /\ ~last.ok) => kept

\* A routed request reached the allocate callback of the most recent
\* successful custom initialisation, with the user data that one passed
C19_Witness ==
    /\ last.op = "malloc"
    /\ pre_mode = MEMORY_MODE_ALLOCATOR
    /\ Len(calls) = 1
    /\ calls[1].backend = "custom"
    /\ calls[1].fn = hist_custom.malloc_fn
    /\ calls[1].ud = hist_custom.user_data
    /\ calls[1].ud # NULL
    /\ hist_custom.realloc_fn = NULL
\* ---------------------------------------------------------------- C17
\* C17: nothing in the context serialises its callers.  A request that has
\* seen the mode Pool hands the engine a handle the engine does not hold
\* (destroyed by a Destroy() under way, or not yet stored by an
\* Initialize(Pool) that has stored the mode) only in a run where some call
\* began while another was under way; in runs whose calls are made one at a
\* time no such call is made.
C17_StaleOnlyWhenOverlapped ==
    (stale_use \/ threads.stale_kinds # {}) => threads.overlapped

\* Both races have happened in one run: a request used a destroyed handle,
\* and a request used the handle slot before Initialize(Pool) stored into it
C17_Witness ==
    /\ threads.overlapped
    /\ threads.stale_kinds = {"destroyed", "not stored"}
====
